---- MODULE Spec2Model ----
(***************************************************************************)
(* A model of coderev's codediff.py: the directory-mode pipeline           *)
(* (CodeDiffer.__diff_dir_by_list with Pager), the context-diff renderer   *)
(* cdiff_to_html, strip_prefix, and make_diff with the walk of             *)
(* __make_file_list.                                                       *)
(*                                                                         *)
(* Strings are sequences of one-character strings, so that sorting,        *)
(* prefix tests and concatenation are computed and not assumed.  A page of *)
(* the Pager, a string of concatenated row fragments in the code, is the   *)
(* sequence of its row fragments; '' is <<>>.                              *)
(***************************************************************************)
EXTENDS Integers, Sequences, FiniteSets, TLC

VARIABLES
    file_list,            \* CodeDiffer.__file_list
    pc,                   \* position in __diff_dir_by_list
    i,                    \* 1-based index of the next entry of the for loop
    summary,              \* the summary dict of __diff_dir_by_list
    has_diff,             \* the has_diff flag
    pager,                \* CodeDiffer.__pager: [numitem, pages, count]
    show_common_files,    \* CodeDiffer.__show_common_files
    include_binary_files, \* CodeDiffer.__include_binary_files
    written,              \* per-file artifacts written under the output root
    outdirs,              \* directories created under the output root
    index_pages,          \* index pages written under the output root
    cur,                  \* the loop's locals for the entry processed last
    records,              \* outcome of every entry processed so far, in order
    cd_in,                \* the edit script behind the stream given to cdiff_to_html
    cd_out,               \* what cdiff_to_html returned for it
    sp_name,              \* the name given to strip_prefix
    sp_p,                 \* the p given to strip_prefix
    sp_out,               \* what strip_prefix returned
    top1,                 \* what CodeDiffer.__obj1 names: [name, kind, files]
    top2,                 \* what CodeDiffer.__obj2 names
    raised,               \* the exception make_diff ended with, or "none"
    output_written,       \* whether __diff_file wrote CodeDiffer.__output
    wk_stack,             \* os.walk: the directories still to be listed
    wk_visited,           \* os.walk: the <<side, directory>> listed so far
    flist_a,              \* flist of __grab_dir(self.__obj1)
    flist_b               \* flist of __grab_dir(self.__obj2)

vars == <<file_list, pc, i, summary, has_diff, pager, show_common_files,
          include_binary_files, written, outdirs, index_pages, cur,
          records, cd_in, cd_out, sp_name, sp_p, sp_out, top1, top2, raised,
          output_written, wk_stack, wk_visited, flist_a, flist_b>>

dirVars == <<file_list, pc, i, summary, has_diff, pager, show_common_files,
             include_binary_files, written, outdirs, index_pages, cur,
             records>>

\* dirVars without pc.
dirData == <<file_list, i, summary, has_diff, pager, show_common_files,
             include_binary_files, written, outdirs, index_pages, cur,
             records>>

stripVars == <<sp_name, sp_p, sp_out>>

walkVars == <<wk_stack, wk_visited, flist_a, flist_b>>

makeVars == <<top1, top2, raised, output_written, walkVars>>

(***************************************************************************)
(* Bounds.                                                                 *)
(***************************************************************************)
MaxFiles == 2       \* longest file list
MaxNumItem == 2     \* largest page size given to Pager
MaxOps == 3         \* most edit operations of one edit script
MaxNameLen == 4     \* longest name given to strip_prefix
MaxStrip == 3       \* largest p given to strip_prefix
MaxTreeFiles == 2   \* most files of one top-level directory

\* The relative paths a file list is drawn from.
Paths == { <<"a">>, <<"a", "/", "b">>, <<"B">> }

(***************************************************************************)
(* Python values and strings.                                              *)
(***************************************************************************)
\* A Python value that is True, False or None.
PyBool(b) == IF b THEN "True" ELSE "False"
Truthy(x) == x = "True"

\* ord() of the characters paths are made of.
CharCode(c) ==
    CASE c = "/" -> 47
      [] c = "B" -> 66
      [] c = "a" -> 97
      [] c = "b" -> 98

\* s < t for Python strings: lexicographic by code point.
RECURSIVE StrLess(_, _)
StrLess(s, t) ==
    IF t = <<>> THEN FALSE
    ELSE IF s = <<>> THEN TRUE
    ELSE IF Head(s) = Head(t) THEN StrLess(Tail(s), Tail(t))
    ELSE CharCode(Head(s)) < CharCode(Head(t))

RECURSIVE SortedInsert(_, _)
SortedInsert(x, s) ==
    IF s = <<>> THEN <<x>>
    ELSE IF StrLess(x, Head(s)) THEN <<x>> \o s
    ELSE <<Head(s)>> \o SortedInsert(x, Tail(s))

RECURSIVE SortedOf(_)
SortedOf(s) ==
    IF s = <<>> THEN <<>> ELSE SortedInsert(Head(s), SortedOf(Tail(s)))

\* The file list left as it came.
list_sort_unsorted(s) == s

\* list.sort() of the file list (line 583).
list_sort(s) == SortedOf(s)

\* os.path.dirname: what precedes the last '/', '' when there is none.
RECURSIVE LastSlash(_)
LastSlash(f) ==
    IF f = <<>> THEN 0
    ELSE IF f[Len(f)] = "/" THEN Len(f)
    ELSE LastSlash(SubSeq(f, 1, Len(f) - 1))

dirname(f) == SubSeq(f, 1, LastSlash(f) - 1)

\* os.makedirs(join(output, d)): d and every directory above it, the output
\* root (<<>>) included.
RECURSIVE makedirs(_)
makedirs(d) == IF d = <<>> THEN { <<>> } ELSE { d } \cup makedirs(dirname(d))

(***************************************************************************)
(* The context diff handed to cdiff_to_html.                               *)
(*                                                                         *)
(* difflib.context_diff is the supplied line-level diff: its input here is *)
(* the edit script it found, a list of operations [tag, la, lb, newgroup]  *)
(* (la lines of the old file, lb lines of the new file, newgroup when the  *)
(* operation opens a hunk), and its output is the line stream difflib      *)
(* lays out for that script.                                               *)
(***************************************************************************)
Op(tag, la, lb, newgroup) ==
    [tag |-> tag, la |-> la, lb |-> lb, newgroup |-> newgroup]

\* The shapes an operation takes.
OpShapes ==
    { [tag |-> "equal", la |-> 1, lb |-> 1],
      [tag |-> "insert", la |-> 0, lb |-> 1],
      [tag |-> "delete", la |-> 1, lb |-> 0],
      [tag |-> "replace", la |-> 1, lb |-> 1],
      [tag |-> "replace", la |-> 1, lb |-> 2],
      [tag |-> "replace", la |-> 2, lb |-> 1] }

Ops == { Op(o.tag, o.la, o.lb, g) : o \in OpShapes, g \in BOOLEAN }

\* The text of a file line (the same for every line of one script).
LineTexts == { <<"x", "\n">>, <<"*", "<", "&", "\n">> }

\* What get_grouped_opcodes can return: the first operation opens a hunk,
\* equal and unequal operations alternate inside a hunk, and no hunk is a
\* lone equal operation.
ValidOps(ops) ==
    /\ ops # <<>> => ops[1].newgroup
    /\ \A k \in 1..Len(ops) :
          /\ (k > 1 /\ ~ops[k].newgroup) =>
                ((ops[k].tag = "equal") # (ops[k - 1].tag = "equal"))
          /\ (ops[k].newgroup /\ (k = Len(ops) \/ ops[k + 1].newgroup)) =>
                ops[k].tag # "equal"

Scripts ==
    { [ops |-> ops, text |-> t] :
        ops \in { o \in UNION { [1..n -> Ops] : n \in 0..MaxOps } : ValidOps(o) },
        t \in LineTexts }

\* The hunks of an operation list.
RECURSIVE GroupsOf(_, _)
GroupsOf(ops, acc) ==
    IF ops = <<>> THEN acc
    ELSE IF Head(ops).newgroup \/ acc = <<>>
         THEN GroupsOf(Tail(ops), Append(acc, <<Head(ops)>>))
         ELSE GroupsOf(Tail(ops),
                       [acc EXCEPT ![Len(acc)] = Append(@, Head(ops))])

Prefix(tag) ==
    CASE tag = "insert" -> <<"+", " ">>
      [] tag = "delete" -> <<"-", " ">>
      [] tag = "replace" -> <<"!", " ">>
      [] tag = "equal" -> <<" ", " ">>

Copies(n, line) == [k \in 1..n |-> line]

\* The '*** ' half of a hunk: the old lines of every operation but inserts.
RECURSIVE OldHalf(_, _)
OldHalf(group, text) ==
    IF group = <<>> THEN <<>>
    ELSE LET o == Head(group)
         IN (IF o.tag # "insert"
             THEN Copies(o.la, Prefix(o.tag) \o text) ELSE <<>>)
            \o OldHalf(Tail(group), text)

\* The '--- ' half of a hunk: the new lines of every operation but deletes.
RECURSIVE NewHalf(_, _)
NewHalf(group, text) ==
    IF group = <<>> THEN <<>>
    ELSE LET o == Head(group)
         IN (IF o.tag # "delete"
             THEN Copies(o.lb, Prefix(o.tag) \o text) ELSE <<>>)
            \o NewHalf(Tail(group), text)

Stars == [k \in 1..15 |-> "*"] \o <<"\n">>
FromTitle == <<"*", "*", "*", " ", "A", "\n">>
ToTitle == <<"-", "-", "-", " ", "B", "\n">>
FromRange == <<"*", "*", "*", " ", "r", " ", "*", "*", "*", "*", "\n">>
ToRange == <<"-", "-", "-", " ", "r", " ", "-", "-", "-", "-", "\n">>

HasTag(group, tags) == \E k \in 1..Len(group) : group[k].tag \in tags

HunkLines(group, text) ==
    <<Stars, FromRange>>
    \o (IF HasTag(group, {"replace", "delete"}) THEN OldHalf(group, text) ELSE <<>>)
    \o <<ToRange>>
    \o (IF HasTag(group, {"replace", "insert"}) THEN NewHalf(group, text) ELSE <<>>)

RECURSIVE AllHunkLines(_, _)
AllHunkLines(groups, text) ==
    IF groups = <<>> THEN <<>>
    ELSE HunkLines(Head(groups), text) \o AllHunkLines(Tail(groups), text)

\* difflib.context_diff for a script: nothing at all when there is no hunk.
context_diff(script) ==
    LET groups == GroupsOf(script.ops, <<>>)
    IN IF groups = <<>> THEN <<>>
       ELSE <<FromTitle, ToTitle>> \o AllHunkLines(groups, script.text)

(***************************************************************************)
(* html_filter and cdiff_to_html.                                          *)
(***************************************************************************)
HtmlChar(c) ==
    CASE c = "&" -> <<"&", "a", "m", "p", ";">>
      [] c = ">" -> <<"&", "g", "t", ";">>
      [] c = "<" -> <<"&", "l", "t", ";">>
      [] OTHER -> <<c>>

RECURSIVE html_filter(_)
html_filter(s) ==
    IF s = <<>> THEN <<>> ELSE HtmlChar(Head(s)) \o html_filter(Tail(s))

Bump(sm, key) == [sm EXCEPT ![key] = @ + 1]

\* Every '! ' line counted, in whichever half.
CountsChange_anywhere(old_group) == TRUE

\* Whether a '! ' line is counted, given the old_group flag (line 191).
CountsChange(old_group) == old_group

\* One pass of the for loop of cdiff_to_html over a line of the stream.
CdiffLine(st, raw) ==
    LET n == Len(raw)
        line == html_filter(raw)
        Is(k, p) == n >= k /\ SubSeq(line, 1, k) = p
    IN IF Is(4, <<"*", "*", "*", " ">>)
       THEN [st EXCEPT !.old_group = TRUE,
                       !.body = Append(@, <<"fromtitle", line>>)]
       ELSE IF Is(4, <<"-", "-", "-", " ">>)
       THEN [st EXCEPT !.old_group = FALSE,
                       !.body = Append(@, <<"totitle", line>>)]
       ELSE IF Is(2, <<" ", " ">>)
       THEN [st EXCEPT !.body = Append(@, <<"same", line>>)]
       ELSE IF Is(2, <<"!", " ">>)
       THEN [st EXCEPT !.body = Append(@, <<"change", line>>),
                       !.summary = IF CountsChange(st.old_group)
                                   THEN Bump(@, "changed") ELSE @]
       ELSE IF Is(2, <<"-", " ">>)
       THEN [st EXCEPT !.body = Append(@, <<"delete", line>>),
                       !.summary = Bump(@, "deleted")]
       ELSE IF Is(2, <<"+", " ">>)
       THEN [st EXCEPT !.body = Append(@, <<"insert", line>>),
                       !.summary = Bump(@, "added")]
       ELSE IF Is(15, [k \in 1..15 |-> "*"])
       THEN [st EXCEPT !.body = Append(@, <<"hr">>)]
       ELSE [st EXCEPT !.body = Append(@, <<"raw", line>>)]

ZeroSummary == [changed |-> 0, added |-> 0, deleted |-> 0]

RECURSIVE CdiffFold(_, _)
CdiffFold(st, cdiff) ==
    IF cdiff = <<>> THEN st
    ELSE CdiffFold(CdiffLine(st, Head(cdiff)), Tail(cdiff))

\* cdiff_to_html(cdiff, title): the summary and the body of the page.
cdiff_to_html(cdiff) ==
    LET st == CdiffFold([summary |-> ZeroSummary, old_group |-> FALSE,
                         body |-> <<>>], cdiff)
    IN [summary |-> st.summary, body |-> st.body]

\* cdiff_lines: the context diff of the two files, rendered.
cdiff_lines(script) == cdiff_to_html(context_diff(script))

(***************************************************************************)
(* The two trees as one entry sees them.                                   *)
(*                                                                         *)
(* A side is what lies at join(obj, f): its kind, and the mime type        *)
(* magic.from_file reported for it when it was sniffed ("none": the sniff  *)
(* raised FileNotFoundError).  A symlink is a link to an existing regular  *)
(* text file; libmagic names the link or its target, by its build.  For a  *)
(* pair of regular files rel tells how they compare: bytes_equal (same     *)
(* bytes), same_sig (same os.stat signature: type, size and mtime) and the *)
(* edit script between their line lists.                                   *)
(***************************************************************************)
Side(kind, mime) == [kind |-> kind, mime |-> mime]

AllSides ==
    { Side("absent", "none"),
      Side("dir", "inode/directory"),
      Side("special", "inode/fifo"),
      Side("symlink", "inode/symlink"),
      Side("symlink", "text/plain"),
      Side("regular", "text/plain"),
      Side("regular", "application/octet-stream"),
      Side("regular", "none") }

\* The sides of a quiet tree: no links, nothing moving while it is read.
PlainSides ==
    { s \in AllSides : s.kind # "symlink" /\ (s.mime = "none" <=> s.kind = "absent") }

XText == <<"x", "\n">>
NoChange == [ops |-> <<>>, text |-> XText]

\* The edit scripts the directory runs draw from.
DirScripts ==
    { NoChange,
      [ops |-> <<Op("replace", 1, 2, TRUE)>>, text |-> XText],
      [ops |-> <<Op("insert", 0, 1, TRUE)>>, text |-> XText],
      [ops |-> <<Op("delete", 1, 0, TRUE)>>, text |-> XText] }

Rel(bytes_equal, same_sig, script) ==
    [bytes_equal |-> bytes_equal, same_sig |-> same_sig, script |-> script]

NoRel == Rel(FALSE, FALSE, NoChange)

\* Equal bytes give equal lines and, when both were sniffed, equal mime types.
Rels(s1, s2) ==
    IF s1.kind = "regular" /\ s2.kind = "regular"
    THEN { r \in { Rel(b, g, sc) : b \in BOOLEAN, g \in BOOLEAN, sc \in DirScripts } :
             r.bytes_equal =>
                /\ r.script = NoChange
                /\ (s1.mime = "none" \/ s2.mime = "none" \/ s1.mime = s2.mime) }
    ELSE { NoRel }

Env(s1, s2, r) == [obj1 |-> s1, obj2 |-> s2, rel |-> r]

AllEnvs ==
    UNION { { Env(s1, s2, r) : r \in Rels(s1, s2) } : s1 \in AllSides, s2 \in AllSides }

\* Quiet trees whose files carry distinct signatures unless they are equal.
DirEnvs ==
    { e \in AllEnvs :
        /\ e.obj1 \in PlainSides
        /\ e.obj2 \in PlainSides
        /\ e.rel.same_sig = e.rel.bytes_equal }

(***************************************************************************)
(* The file classifier's primitives.                                       *)
(***************************************************************************)
\* 'text' in mime
MimeIsText(mime) == mime = "text/plain"

is_binary_file(side) ==
    IF side.mime = "none" THEN "None" ELSE PyBool(~MimeIsText(side.mime))

is_text_file(side) ==
    IF side.mime = "none" THEN "None" ELSE PyBool(MimeIsText(side.mime))

\* os.path.exists follows symbolic links.
path_exists(side) == side.kind # "absent"

\* stat.S_ISDIR and stat.S_ISREG of os.lstat, which does not follow links.
lstat_is_dir(side) == side.kind = "dir"
lstat_is_regular(side) == side.kind = "regular"

\* filecmp.cmp(obj1, obj2) with its default shallow=True: equal signatures
\* are taken as equal files, otherwise the bytes decide.
filecmp_cmp(rel) == IF rel.same_sig THEN TRUE ELSE rel.bytes_equal

(***************************************************************************)
(* Pager.                                                                  *)
(***************************************************************************)
Pager(numitem) == [numitem |-> numitem, pages |-> << <<>> >>, count |-> 0]

\* Pager.add without its guard against an empty item.
Pager_add_unguarded(p, item) ==
    LET c == p.count + 1
        sealed == c >= p.numitem
        pages1 == IF sealed THEN Append(p.pages, <<>>) ELSE p.pages
    IN [numitem |-> p.numitem,
        pages |-> [pages1 EXCEPT ![Len(pages1)] = @ \o item],
        count |-> IF sealed THEN 0 ELSE c]

Pager_add(p, item) ==
    IF item = <<>> THEN p
    ELSE LET c == p.count + 1
             sealed == c >= p.numitem
             pages1 == IF sealed THEN Append(p.pages, <<>>) ELSE p.pages
         IN [numitem |-> p.numitem,
             pages |-> [pages1 EXCEPT ![Len(pages1)] = @ \o item],
             count |-> IF sealed THEN 0 ELSE c]

(***************************************************************************)
(* One pass of the for loop of __diff_dir_by_list.                         *)
(***************************************************************************)
\* A row fragment: the template filled in.  counts is what the template
\* prints of the per-file summary: <<changed, deleted, added>> in the diff
\* row, nothing ("-/-/-") in the others.
Row(template, f, counts) ==
    [template |-> template, pathname |-> f, counts |-> counts]

\* file_summary before cdiff_lines has set it.
NoCounts == <<>>

\* A skip taken after has_diff was already set.
Skipped_after_has_diff(branch, verdict) ==
    [branch |-> branch, verdict |-> verdict, called_add |-> FALSE,
     data_row |-> <<>>, writes |-> {}, counter |-> "none",
     sets_has_diff |-> TRUE, file_summary |-> NoCounts]

\* A continue: the pass ends before Pager.add (lines 624 to 673).
Skipped(branch, verdict) ==
    [branch |-> branch, verdict |-> verdict, called_add |-> FALSE,
     data_row |-> <<>>, writes |-> {}, counter |-> "none",
     sets_has_diff |-> FALSE, file_summary |-> NoCounts]

\* Whether a sniffed flag excludes the entry as binary (lines 628, 647, 658).
ExcludedBinary(is_binary, incl) == Truthy(is_binary) /\ ~incl

\* The counter of the global summary a diffed pair adds to (line 725).
DiffCounter(fs) == "changed"

\* What the pass does for path f, given what it finds on the two sides.
ProcessFile(f, e, incl, showc) ==
    LET file1_is_binary == is_binary_file(e.obj1)
        file2_is_binary == is_binary_file(e.obj2)
        file1_is_text == is_text_file(e.obj1)
        file2_is_text == is_text_file(e.obj2)
        stat1 == path_exists(e.obj1)
        stat2 == path_exists(e.obj2)
        file1_is_dir == IF stat1 THEN PyBool(lstat_is_dir(e.obj1)) ELSE "None"
        file2_is_dir == IF stat2 THEN PyBool(lstat_is_dir(e.obj2)) ELSE "None"
        file1_is_regular == IF stat1 THEN PyBool(lstat_is_regular(e.obj1)) ELSE "None"
        file2_is_regular == IF stat2 THEN PyBool(lstat_is_regular(e.obj2)) ELSE "None"
        fs == cdiff_lines(e.rel.script).summary
    IN IF stat1 /\ ~stat2 THEN
          IF Truthy(file1_is_dir) THEN Skipped("removed", "skipped dir")
          ELSE IF ~Truthy(file1_is_regular) THEN Skipped("removed", "skipped special")
          ELSE IF ExcludedBinary(file1_is_binary, incl)
          THEN Skipped("removed", "skipped binary")
          ELSE [branch |-> "removed", verdict |-> "deleted", called_add |-> TRUE,
                data_row |-> <<Row("deleted", f, <<>>)>>,
                writes |-> IF Truthy(file1_is_text) THEN { <<f, "-.html">> } ELSE {},
                counter |-> "deleted", sets_has_diff |-> TRUE,
                file_summary |-> NoCounts]
       ELSE IF ~stat1 /\ stat2 THEN
          IF Truthy(file2_is_dir) THEN Skipped("new", "skipped dir")
          ELSE IF ~Truthy(file2_is_regular) THEN Skipped("new", "skipped special")
          ELSE IF ExcludedBinary(file2_is_binary, incl)
          THEN Skipped("new", "skipped binary")
          ELSE [branch |-> "new", verdict |-> "added", called_add |-> TRUE,
                data_row |-> <<Row("added", f, <<>>)>>,
                writes |-> IF Truthy(file2_is_text) THEN { <<f, ".html">> } ELSE {},
                counter |-> "added", sets_has_diff |-> TRUE,
                file_summary |-> NoCounts]
       ELSE IF stat1 /\ stat2 THEN
          IF ExcludedBinary(file1_is_binary, incl) \/ ExcludedBinary(file2_is_binary, incl)
          THEN Skipped("both", "skipped binary")
          ELSE IF Truthy(file1_is_dir) \/ Truthy(file2_is_dir)
          THEN Skipped("both", "skipped dir")
          ELSE IF ~Truthy(file1_is_regular) \/ ~Truthy(file2_is_regular)
          THEN Skipped("both", "skipped special")
          ELSE IF ~showc /\ filecmp_cmp(e.rel)
          THEN Skipped("both", "skipped same")
          ELSE [branch |-> "both", verdict |-> "diff", called_add |-> TRUE,
                data_row |->
                    IF fs.changed = 0 /\ fs.deleted = 0 /\ fs.added = 0
                    THEN <<Row("same", f, <<>>)>>
                    ELSE <<Row("diff", f, <<fs.changed, fs.deleted, fs.added>>)>>,
                writes |->
                    { <<f, ".cdiff.html">>, <<f, ".udiff.html">>,
                      <<f, ".sdiff.html">>, <<f, ".fdiff.html">> }
                    \cup (IF Truthy(file1_is_text) THEN { <<f, "-.html">> } ELSE {})
                    \cup (IF Truthy(file2_is_text) THEN { <<f, ".html">> } ELSE {}),
                counter |-> DiffCounter(fs), sets_has_diff |-> TRUE,
                file_summary |-> <<fs>>]
       ELSE [branch |-> "neither", verdict |-> "not found", called_add |-> TRUE,
             data_row |-> <<>>, writes |-> {}, counter |-> "none",
             sets_has_diff |-> FALSE, file_summary |-> NoCounts]

(***************************************************************************)
(* The links of a row: the suffixes its template puts after pathname_url   *)
(* in an href, and the artifacts these name.                               *)
(***************************************************************************)
RowLinks(template) ==
    CASE template = "same" -> { "-.html", ".html" }
      [] template = "diff" -> { ".cdiff.html", ".udiff.html", ".sdiff.html",
                                ".fdiff.html", "-.html", ".html" }
      [] template = "deleted" -> { "-.html" }
      [] template = "added" -> { ".html" }

LinkedArtifacts(row) == { <<row.pathname, suffix>> : suffix \in RowLinks(row.template) }

(***************************************************************************)
(* Index page names.                                                       *)
(***************************************************************************)
DigitChar(d) == <<"0", "1", "2", "3", "4", "5", "6", "7", "8", "9">>[d + 1]

RECURSIVE Decimal(_)
Decimal(n) ==
    IF n < 10 THEN <<DigitChar(n)>>
    ELSE Decimal(n \div 10) \o <<DigitChar(n % 10)>>

\* '%i' and '{:d}': no zeros in front.
Pad4_unpadded(n) == Decimal(n)

\* '%04i' and '{:04d}': at least four digits, zeros in front.
Pad4(n) == LET d == Decimal(n) IN [k \in 1..(4 - Len(d)) |-> "0"] \o d

IndexName(n) == <<"index">> \o Pad4(n) \o <<".html">>

\* The name page ix is written under (lines 761 to 763).
PageName(n, pages) == IF pages = 1 THEN <<"index", ".html">> ELSE IndexName(n)

\* The navigation widget: one link per page, or nothing for a single page.
IndexDiv(pages) == IF pages > 1 THEN [k \in 1..pages |-> IndexName(k - 1)] ELSE <<>>

(***************************************************************************)
(* The directory run: __diff_dir_by_list.                                  *)
(***************************************************************************)
NoEntry ==
    [f |-> <<>>, obj1 |-> Side("absent", "none"), obj2 |-> Side("absent", "none"),
     rel |-> NoRel, branch |-> "none", verdict |-> "none",
     file_summary |-> NoCounts, data_row |-> <<>>]

\* Lists without repetition: list(set(a) | set(b)) of __make_file_list.
FileLists ==
    { l \in UNION { [1..n -> Paths] : n \in 0..MaxFiles } :
        \A j, k \in 1..Len(l) : j # k => l[j] # l[k] }

InitDir ==
    /\ file_list \in FileLists
    /\ pc = "sort"
    /\ i = 1
    /\ summary = ZeroSummary
    /\ has_diff = FALSE
    /\ pager \in { Pager(m) : m \in 1..MaxNumItem }
    /\ show_common_files \in BOOLEAN
    /\ include_binary_files \in BOOLEAN
    /\ written = {}
    /\ outdirs = {}
    /\ index_pages = {}
    /\ cur = NoEntry
    /\ records = <<>>

NoResult == [summary |-> ZeroSummary, body |-> <<>>]

\* make_diff has not been called.
NoTop == [name |-> <<>>, kind |-> "absent", files |-> {}]

IdleMake ==
    /\ top1 = NoTop
    /\ top2 = NoTop
    /\ raised = "none"
    /\ output_written = FALSE
    /\ wk_stack = <<>>
    /\ wk_visited = {}
    /\ flist_a = <<>>
    /\ flist_b = <<>>

\* strip_prefix has not been called.
IdleStrip ==
    /\ sp_name = <<>>
    /\ sp_p = 0
    /\ sp_out = <<>>

Init ==
    /\ InitDir
    /\ cd_in = NoChange
    /\ cd_out = NoResult
    /\ IdleStrip
    /\ IdleMake

\* self.__file_list.sort()
Sort ==
    /\ pc = "sort"
    /\ file_list' = list_sort(file_list)
    /\ pc' = "loop"
    /\ UNCHANGED <<i, summary, has_diff, pager, show_common_files,
                   include_binary_files, written, outdirs, index_pages,
                   cur, records, cd_in, cd_out, stripVars, makeVars>>

\* One pass of the for loop, over what env holds at the entry's path.
ProcessEntry(env) ==
    /\ pc = "loop"
    /\ i <= Len(file_list)
    /\ \E out \in { ProcessFile(file_list[i], env, include_binary_files,
                                 show_common_files) } :
          LET f == file_list[i]
          IN /\ outdirs' = outdirs \cup makedirs(dirname(f))
             /\ written' = written \cup out.writes
             /\ summary' = IF out.counter = "none" THEN summary
                           ELSE Bump(summary, out.counter)
             /\ has_diff' = (has_diff \/ out.sets_has_diff)
             /\ pager' = IF out.called_add THEN Pager_add(pager, out.data_row)
                         ELSE pager
             /\ cur' = [f |-> f, obj1 |-> env.obj1, obj2 |-> env.obj2,
                        rel |-> env.rel, branch |-> out.branch,
                        verdict |-> out.verdict,
                        file_summary |-> out.file_summary,
                        data_row |-> out.data_row]
             /\ records' = Append(records,
                    [f |-> f, verdict |-> out.verdict, data_row |-> out.data_row])
    /\ i' = i + 1
    /\ UNCHANGED <<file_list, pc, show_common_files, include_binary_files,
                   index_pages, cd_in, cd_out, stripVars, makeVars>>

\* if not has_diff: return False
ReturnNoDiff ==
    /\ pc = "loop"
    /\ i > Len(file_list)
    /\ ~has_diff
    /\ pc' = "done"
    /\ UNCHANGED <<file_list, i, summary, has_diff, pager, show_common_files,
                   include_binary_files, written, outdirs, index_pages,
                   cur, records, cd_in, cd_out, stripVars, makeVars>>

\* The loop is over and something was found: the index pages are written,
\* page ix of self.__pager.pages under the name of number ix.
WriteIndex ==
    /\ pc = "loop"
    /\ i > Len(file_list)
    /\ has_diff
    /\ LET pages == Len(pager.pages)
       IN index_pages' =
             { [pagename |-> PageName(n, pages),
                index_div |-> IndexDiv(pages),
                summary_info |-> summary,
                data_rows |-> pager.pages[n + 1]] : n \in 0..(pages - 1) }
    /\ pc' = "done"
    /\ UNCHANGED <<file_list, i, summary, has_diff, pager, show_common_files,
                   include_binary_files, written, outdirs, cur, records,
                   cd_in, cd_out, stripVars, makeVars>>

DirEntry == \E env \in DirEnvs : ProcessEntry(env)

Next ==
    \/ Sort
    \/ DirEntry
    \/ ReturnNoDiff
    \/ WriteIndex

Spec == Init /\ [][Next]_vars

(***************************************************************************)
(* strip_prefix.  Positions are Python's, counted from 0.                  *)
(***************************************************************************)
\* The characters names are made of, and the names.
NameChars == { "/", ".", "a" }
Names == UNION { [1..n -> NameChars] : n \in 0..MaxNameLen }

\* name[k]
CharAt(name, k) == name[k + 1]

\* name.find(ch, start): the least position from start on that holds ch, or -1.
str_find(name, ch, start) ==
    LET hits == { k \in start..(Len(name) - 1) : CharAt(name, k) = ch }
    IN IF hits = {} THEN -1
       ELSE CHOOSE k \in hits : \A h \in hits : k <= h

\* Steps over one '/' only.
SkipSlashes_one(name, index) ==
    IF index <= Len(name) - 1 /\ CharAt(name, index) = "/"
    THEN index + 1
    ELSE index

\* while index <= tail and name[index] == '/': index += 1
RECURSIVE SkipSlashes(_, _)
SkipSlashes(name, index) ==
    IF index <= Len(name) - 1 /\ CharAt(name, index) = "/"
    THEN SkipSlashes(name, index + 1)
    ELSE index

\* The while p > 0 loop of strip_prefix, from position cur, and its return.
RECURSIVE StripLoop(_, _, _)
StripLoop(name, cur_pos, p) ==
    IF p > 0
    THEN LET index == str_find(name, "/", cur_pos)
         IN IF index = -1 THEN SubSeq(name, cur_pos + 1, Len(name))
            ELSE StripLoop(name, SkipSlashes(name, index), p - 1)
    ELSE SubSeq(name, cur_pos + 1, Len(name))

strip_prefix(name, p) == StripLoop(name, 0, p)

(***************************************************************************)
(* One entry under every file-system situation.                            *)
(***************************************************************************)
InitClassify ==
    /\ Init
    /\ Len(file_list) = 1

AnyEntry == \E env \in AllEnvs : ProcessEntry(env)

NextClassify ==
    \/ Sort
    \/ AnyEntry
    \/ ReturnNoDiff
    \/ WriteIndex

SpecClassify == InitClassify /\ [][NextClassify]_vars

(***************************************************************************)
(* cdiff_lines on its own, over every edit script.                         *)
(***************************************************************************)
InitCdiff ==
    /\ file_list = <<>>
    /\ pc = "idle"
    /\ i = 1
    /\ summary = ZeroSummary
    /\ has_diff = FALSE
    /\ pager = Pager(1)
    /\ show_common_files = FALSE
    /\ include_binary_files = FALSE
    /\ written = {}
    /\ outdirs = {}
    /\ index_pages = {}
    /\ cur = NoEntry
    /\ records = <<>>
    /\ cd_in = NoChange
    /\ cd_out = NoResult
    /\ IdleStrip
    /\ IdleMake

Render ==
    /\ pc = "idle"
    /\ \E script \in Scripts :
          /\ cd_in' = script
          /\ cd_out' = cdiff_lines(script)
    /\ pc' = "rendered"
    /\ UNCHANGED <<file_list, i, summary, has_diff, pager, show_common_files,
                   include_binary_files, written, outdirs, index_pages,
                   cur, records, stripVars, makeVars>>

NextCdiff == Render

SpecCdiff == InitCdiff /\ [][NextCdiff]_vars

(***************************************************************************)
(* strip_prefix on its own, over every name and strip level.               *)
(***************************************************************************)
\* The directory run and the renderer are not started.
IdleDir ==
    /\ file_list = <<>>
    /\ i = 1
    /\ summary = ZeroSummary
    /\ has_diff = FALSE
    /\ pager = Pager(1)
    /\ show_common_files = FALSE
    /\ include_binary_files = FALSE
    /\ written = {}
    /\ outdirs = {}
    /\ index_pages = {}
    /\ cur = NoEntry
    /\ records = <<>>

IdleCdiff ==
    /\ cd_in = NoChange
    /\ cd_out = NoResult

InitStrip ==
    /\ IdleDir
    /\ IdleCdiff
    /\ pc = "idle"
    /\ sp_name \in Names
    /\ sp_p \in 0..MaxStrip
    /\ sp_out = <<>>
    /\ IdleMake

\* sp_out = strip_prefix(sp_name, sp_p)
Strip ==
    /\ pc = "idle"
    /\ sp_out' = strip_prefix(sp_name, sp_p)
    /\ pc' = "stripped"
    /\ UNCHANGED <<dirData, cd_in, cd_out, sp_name, sp_p, makeVars>>

NextStrip == Strip

SpecStrip == InitStrip /\ [][NextStrip]_vars

(***************************************************************************)
(* make_diff, and the walk of __make_file_list behind its directory mode.  *)
(* A tree is the set of its files, each the sequence of the names on the   *)
(* way to it; its directories are the proper prefixes of those.            *)
(***************************************************************************)
GIT == <<".", "g", "i", "t">>
CVS == <<"C", "V", "S">>
SCCS == <<"S", "C", "C", "S">>
SVN == <<".", "s", "v", "n">>
REPO == <<".", "r", "e", "p", "o">>
CVSIGNORE == <<".", "c", "v", "s", "i", "g", "n", "o", "r", "e">>

\* _global_dir_ignore_list and _global_file_ignore_list: a pattern is the
\* text it matches and whether anything may come before it ('.*').
_global_dir_ignore_list ==
    << [lit |-> CVS, any_before |-> FALSE], [lit |-> SCCS, any_before |-> FALSE],
       [lit |-> SVN, any_before |-> FALSE], [lit |-> REPO, any_before |-> FALSE],
       [lit |-> GIT, any_before |-> FALSE] >>

_global_file_ignore_list ==
    << [lit |-> <<".", "o">>, any_before |-> TRUE],
       [lit |-> <<".", "s", "w", "p">>, any_before |-> TRUE],
       [lit |-> <<".", "b", "a", "k">>, any_before |-> TRUE],
       [lit |-> <<".", "o", "l", "d">>, any_before |-> TRUE],
       [lit |-> <<"~">>, any_before |-> TRUE],
       [lit |-> CVSIGNORE, any_before |-> FALSE] >>

\* Whether text, to its very end, is what pat matches from its start on.
MatchesToEnd(pat, text) ==
    IF pat.any_before
    THEN /\ Len(text) >= Len(pat.lit)
         /\ SubSeq(text, Len(text) - Len(pat.lit) + 1, Len(text)) = pat.lit
         /\ \A k \in 1..(Len(text) - Len(pat.lit)) : text[k] # "\n"
    ELSE text = pat.lit

\* re.match(pat, text): '$' is the end, or just before a newline that ends text.
re_match(pat, text) ==
    \/ MatchesToEnd(pat, text)
    \/ /\ text # <<>>
       /\ text[Len(text)] = "\n"
       /\ MatchesToEnd(pat, SubSeq(text, 1, Len(text) - 1))

__is_ignore_dir(directory) ==
    \E k \in 1..Len(_global_dir_ignore_list) :
        re_match(_global_dir_ignore_list[k], directory)

__is_ignore_file(file) ==
    \E k \in 1..Len(_global_file_ignore_list) :
        re_match(_global_file_ignore_list[k], file)

\* The file names the trees are made of, and the files a tree may hold.
NameX == <<"x">>
NameXO == <<"x", ".", "o">>
NameD == <<"d">>
NameGITX == <<".", "g", "i", "t", "x">>

TreePaths ==
    { <<NameX>>, <<NameXO>>, <<GIT, NameX>>, <<CVS, NameX>>, <<NameD, NameX>>,
      <<NameD, GIT, NameX>>, <<GIT, NameD, NameX>>, <<NameGITX, NameX>> }

Trees == { t \in SUBSET TreePaths : Cardinality(t) <= MaxTreeFiles }

\* What os.stat finds under a top-level name, symbolic links followed.
TopKinds == { "absent", "regular", "dir", "special" }

Tops(names) ==
    { [name |-> n, kind |-> k, files |-> t] :
        n \in names, k \in TopKinds, t \in Trees } \ 
    { top \in [name : names, kind : TopKinds, files : Trees] :
        top.kind # "dir" /\ top.files # {} }

\* os.stat(path)[0], or the OSError it raises.
os_stat(top) == IF top.kind = "absent" THEN "OSError" ELSE top.kind

\* The branch make_diff takes.
make_diff_branch_either(stat1, stat2) ==
    IF stat1 = "OSError" \/ stat2 = "OSError" THEN "OSError"
    ELSE IF stat1 = "regular" /\ stat2 = "regular" THEN "__diff_file"
    ELSE IF stat1 = "dir" \/ stat2 = "dir" THEN "__diff_dir"
    ELSE "different type"

make_diff_branch(stat1, stat2) ==
    IF stat1 = "OSError" \/ stat2 = "OSError" THEN "OSError"
    ELSE IF stat1 = "regular" /\ stat2 = "regular" THEN "__diff_file"
    ELSE IF stat1 = "dir" /\ stat2 = "dir" THEN "__diff_dir"
    ELSE "different type"

\* All the orders a set can be listed in.
Orderings(S) ==
    { l \in [1..Cardinality(S) -> S] :
        \A j, k \in 1..Cardinality(S) : j # k => l[j] # l[k] }

\* while directory[-1] == '/': directory = directory[:-1]
RECURSIVE StripSlashes(_)
StripSlashes(directory) ==
    IF directory[Len(directory)] = "/"
    THEN StripSlashes(SubSeq(directory, 1, Len(directory) - 1))
    ELSE directory

\* os.path.join(a, b)
os_path_join(a, b) ==
    IF b # <<>> /\ b[1] = "/" THEN b
    ELSE IF a = <<>> \/ a[Len(a)] = "/" THEN a \o b
    ELSE a \o <<"/">> \o b

\* The root os.walk reports for the directory d of the tree under top.
RECURSIVE WalkRoot(_, _)
WalkRoot(top, d) ==
    IF d = <<>> THEN top
    ELSE os_path_join(WalkRoot(top, SubSeq(d, 1, Len(d) - 1)), d[Len(d)])

\* The names directly under the directory d of a tree, by kind.
IsUnder(d, p) == Len(p) > Len(d) /\ SubSeq(p, 1, Len(d)) = d
DirNames(files, d) ==
    { p[Len(d) + 1] : p \in { q \in files : IsUnder(d, q) /\ Len(q) > Len(d) + 1 } }
FileNames(files, d) ==
    { p[Len(d) + 1] : p \in { q \in files : IsUnder(d, q) /\ Len(q) = Len(d) + 1 } }

\* for d in dirs: ... dirs.remove(d), run over dirs itself: a removal moves
\* the next name into the place just looked at, and it is never looked at.
RECURSIVE Prune_in_place(_)
Prune_in_place(dirs) ==
    IF dirs = <<>> THEN <<>>
    ELSE IF __is_ignore_dir(Head(dirs))
         THEN IF Len(dirs) = 1 THEN <<>>
              ELSE <<dirs[2]>> \o Prune_in_place(SubSeq(dirs, 3, Len(dirs)))
         ELSE <<Head(dirs)>> \o Prune_in_place(Tail(dirs))

\* for d in [k for k in dirs]: if self.__is_ignore_dir(d): dirs.remove(d)
Prune(dirs) == SelectSeq(dirs, LAMBDA d : ~__is_ignore_dir(d))

\* for f in files: if not self.__is_ignore_file(f): flist.append(name[plen:])
Grabbed(root, files, plen) ==
    LET kept == SelectSeq(files, LAMBDA f : ~__is_ignore_file(f))
    IN [k \in 1..Len(kept) |->
           LET name == os_path_join(root, kept[k])
           IN SubSeq(name, plen + 1, Len(name))]

\* set(l)
SetOf(l) == { l[k] : k \in 1..Len(l) }

TopNames1 == { <<"A">>, <<"A", "/", "/">> }
TopNames2 == { <<"B", "B">> }

InitMake ==
    /\ IdleDir
    /\ IdleCdiff
    /\ IdleStrip
    /\ pc = "start"
    /\ top1 \in Tops(TopNames1)
    /\ top2 \in Tops(TopNames2)
    /\ raised = "none"
    /\ output_written = FALSE
    /\ wk_stack = <<>>
    /\ wk_visited = {}
    /\ flist_a = <<>>
    /\ flist_b = <<>>

\* make_diff up to the call of __diff_dir, __diff_file included.
MakeDiff ==
    /\ pc = "start"
    /\ LET branch == make_diff_branch(os_stat(top1), os_stat(top2))
       IN CASE branch = "__diff_file" ->
                 /\ output_written' = TRUE
                 /\ pc' = "file done"
                 /\ UNCHANGED <<raised, wk_stack>>
            [] branch = "__diff_dir" ->
                 /\ wk_stack' = << <<>> >>
                 /\ pc' = "grab obj1"
                 /\ UNCHANGED <<raised, output_written>>
            [] OTHER ->
                 /\ raised' = "CodeDifferError"
                 /\ pc' = "error"
                 /\ UNCHANGED <<output_written, wk_stack>>
    /\ UNCHANGED <<dirData, cd_in, cd_out, stripVars, top1, top2, wk_visited,
                   flist_a, flist_b>>

\* One round of the for loop over os.walk(directory) in __grab_dir.
WalkDir ==
    /\ pc \in { "grab obj1", "grab obj2" }
    /\ wk_stack # <<>>
    /\ LET top == IF pc = "grab obj1" THEN top1 ELSE top2
           d == Head(wk_stack)
           directory == StripSlashes(top.name)
           plen == Len(directory \o <<"/">>)
           root == WalkRoot(directory, d)
       IN \E listing \in Orderings(DirNames(top.files, d) \cup FileNames(top.files, d)) :
             LET dirs == SelectSeq(listing, LAMBDA n : n \in DirNames(top.files, d))
                 files == SelectSeq(listing, LAMBDA n : n \in FileNames(top.files, d))
                 kept == Prune(dirs)
                 found == Grabbed(root, files, plen)
             IN /\ wk_stack' = [k \in 1..Len(kept) |-> Append(d, kept[k])]
                                   \o Tail(wk_stack)
                /\ wk_visited' = wk_visited \cup { <<pc, d>> }
                /\ flist_a' = IF pc = "grab obj1" THEN flist_a \o found ELSE flist_a
                /\ flist_b' = IF pc = "grab obj2" THEN flist_b \o found ELSE flist_b
    /\ UNCHANGED <<dirVars, cd_in, cd_out, stripVars, top1, top2, raised,
                   output_written>>

\* __grab_dir returns: the second walk starts, or the file list is made,
\* self.__file_list = list(set(a) | set(b)).
GrabReturn ==
    /\ pc \in { "grab obj1", "grab obj2" }
    /\ wk_stack = <<>>
    /\ IF pc = "grab obj1"
       THEN /\ pc' = "grab obj2"
            /\ wk_stack' = << <<>> >>
            /\ UNCHANGED file_list
       ELSE /\ pc' = "listed"
            /\ file_list' \in Orderings(SetOf(flist_a) \cup SetOf(flist_b))
            /\ UNCHANGED wk_stack
    /\ UNCHANGED <<i, summary, has_diff, pager, show_common_files,
                   include_binary_files, written, outdirs, index_pages, cur,
                   records, cd_in, cd_out, stripVars, top1, top2, raised,
                   output_written, wk_visited, flist_a, flist_b>>

NextMake ==
    \/ MakeDiff
    \/ WalkDir
    \/ GrabReturn

SpecMake == InitMake /\ [][NextMake]_vars

(***************************************************************************)
(* Properties of the directory run.                                        *)
(***************************************************************************)
\* The entries that handed Pager.add a non-empty row.
NonSkipped == SelectSeq(records, LAMBDA r : r.data_row # <<>>)

SkipVerdicts ==
    { "skipped dir", "skipped special", "skipped binary", "skipped same", "not found" }

CeilDiv(n, m) == (n + m - 1) \div m

RECURSIVE Flatten(_)
Flatten(ss) == IF ss = <<>> THEN <<>> ELSE Head(ss) \o Flatten(Tail(ss))

RowsOf(rs) == Flatten([k \in 1..Len(rs) |-> rs[k].data_row])

\* s sorts strictly before t: at the first place they differ s has ended or
\* holds the smaller character.
PathBefore(s, t) ==
    \E k \in 1..Len(t) :
        /\ \A j \in 1..(k - 1) : j <= Len(s) /\ s[j] = t[j]
        /\ (k > Len(s) \/ CharCode(s[k]) < CharCode(t[k]))

\* The places (page, position) where the row of path f lies.
PlacesOf(f) ==
    { pk \in (1..Len(pager.pages)) \X (1..MaxFiles) :
        /\ pk[2] <= Len(pager.pages[pk[1]])
        /\ pager.pages[pk[1]][pk[2]].pathname = f }

CountRecords(P(_)) == Len(SelectSeq(records, P))

\* C1 (as claimed): when a run that fed N >= 1 rows to the Pager of page size
\* M ends, the Pager holds ceil(N / M) pages and as many index pages are
\* written.
C1_PagesAreCeil ==
    (pc = "done" /\ Len(NonSkipped) >= 1) =>
        /\ Len(pager.pages) = CeilDiv(Len(NonSkipped), pager.numitem)
        /\ Cardinality(index_pages) = CeilDiv(Len(NonSkipped), pager.numitem)

\* C2: once the file list is processed, the pages in index order hold
\* exactly the rows of the non-skipped entries, each row on one page, in
\* ascending order of relative path.
C2_PagesHoldRowsInOrder ==
    pc = "done" =>
        LET flat == Flatten(pager.pages)
        IN /\ flat = RowsOf(NonSkipped)
           /\ \A j, k \in 1..Len(flat) :
                 j < k => PathBefore(flat[j].pathname, flat[k].pathname)
           /\ \A k \in 1..Len(NonSkipped) :
                 Cardinality(PlacesOf(NonSkipped[k].f)) = 1

\* C2's case: a finished run whose two rows lie on different pages.
C2_Witness ==
    /\ pc = "done"
    /\ Len(NonSkipped) = 2
    /\ \E p, q \in 1..Len(pager.pages) :
          p # q /\ pager.pages[p] # <<>> /\ pager.pages[q] # <<>>

\* C3 (as claimed): each counter of the global summary counts the entries of
\* its classification: changed the Changed entries (diff row), deleted the
\* Deleted ones, added the Added ones; an Unchanged entry (same row) is
\* counted nowhere.
C3_CountersMatchClassification ==
    /\ summary.changed =
          CountRecords(LAMBDA r : r.data_row # <<>> /\ r.data_row[1].template = "diff")
    /\ summary.deleted = CountRecords(LAMBDA r : r.verdict = "deleted")
    /\ summary.added = CountRecords(LAMBDA r : r.verdict = "added")

\* C4: a pass of the loop that classifies its entry Skipped leaves the
\* global summary, the Pager, has_diff and the written artifacts as they
\* were.
C4_SkippedChangesNothing ==
    [][(/\ Len(records') = Len(records) + 1
        /\ records'[Len(records')].verdict \in SkipVerdicts)
       => (/\ summary' = summary
           /\ pager' = pager
           /\ has_diff' = has_diff
           /\ written' = written)]_vars

\* C4's case: an entry was skipped after another had put a row on a page.
C4_Witness ==
    /\ cur.verdict \in SkipVerdicts
    /\ Len(records) = 2
    /\ pager.count > 0

\* C5: a run whose entries were all skipped ends with no index page and no
\* per-file artifact written.
C5_AllSkippedWritesNothing ==
    (pc = "done" /\ Len(NonSkipped) = 0) =>
        (index_pages = {} /\ written = {})

\* C5's case: a finished run of at least one entry, all skipped.
C5_Witness ==
    /\ pc = "done"
    /\ Len(records) >= 1
    /\ \A k \in 1..Len(records) : records[k].verdict \in SkipVerdicts

(***************************************************************************)
(* Properties of the classification of one entry.                          *)
(***************************************************************************)
Processed == cur.branch # "none"

\* The decision table of the file classifier, in its stated order, over the
\* existence, kind and binary flag of each side.
KindOf(side) ==
    IF side.kind = "dir" THEN "dir"
    ELSE IF side.kind = "regular" THEN "regular" ELSE "special"

BinaryFlag(side) == ~MimeIsText(side.mime)

TableOneSide(side, incl, present) ==
    IF KindOf(side) = "dir" THEN "skipped dir"
    ELSE IF KindOf(side) = "special" THEN "skipped special"
    ELSE IF BinaryFlag(side) /\ ~incl THEN "skipped binary"
    ELSE present

DecisionTable(e, incl, showc) ==
    LET on1 == e.obj1.kind # "absent"
        on2 == e.obj2.kind # "absent"
    IN IF on1 /\ ~on2 THEN TableOneSide(e.obj1, incl, "deleted")
       ELSE IF ~on1 /\ on2 THEN TableOneSide(e.obj2, incl, "added")
       ELSE IF on1 /\ on2 THEN
          IF (BinaryFlag(e.obj1) \/ BinaryFlag(e.obj2)) /\ ~incl THEN "skipped binary"
          ELSE IF KindOf(e.obj1) = "dir" \/ KindOf(e.obj2) = "dir" THEN "skipped dir"
          ELSE IF KindOf(e.obj1) # "regular" \/ KindOf(e.obj2) # "regular"
          THEN "skipped special"
          ELSE IF e.rel.bytes_equal /\ ~showc THEN "skipped same"
          ELSE "diff"
       ELSE "not found"

\* C6 (as claimed): for every existence, kind and binary flag of the two
\* sides and every setting of include-binary and show-common, the verdict of
\* the pass is the one the ordered decision table gives, byte-identical
\* pairs being skipped when show-common is off.
C6_VerdictIsDecisionTable ==
    (Processed /\ cur.obj1 \in PlainSides /\ cur.obj2 \in PlainSides) =>
        cur.verdict = DecisionTable(cur, include_binary_files, show_common_files)

\* A link seen as the regular text file it points to.
Resolved(side) ==
    IF side.kind = "symlink" THEN Side("regular", "text/plain") ELSE side

\* C7 (as claimed): an entry with a symbolic link to an existing regular
\* text file on a side gets the verdict it would get with that regular file
\* in the link's place.
C7_LinkClassifiedAsItsTarget ==
    (Processed /\ (cur.obj1.kind = "symlink" \/ cur.obj2.kind = "symlink")) =>
        cur.verdict =
            ProcessFile(cur.f, Env(Resolved(cur.obj1), Resolved(cur.obj2), cur.rel),
                        include_binary_files, show_common_files).verdict

\* A side that exists although its sniff found no file.
Indeterminate(side) == side.kind # "absent" /\ is_binary_file(side) = "None"

\* C8 (as claimed): with binary inclusion off, an entry with a side that
\* exists but whose sniff was indeterminate is Skipped: no row and no
\* summary increment.
C8_IndeterminateIsSkipped ==
    (/\ Processed
     /\ ~include_binary_files
     /\ (Indeterminate(cur.obj1) \/ Indeterminate(cur.obj2))) =>
        /\ cur.verdict \in SkipVerdicts
        /\ cur.data_row = <<>>
        /\ (Len(records) = 1 => summary = ZeroSummary /\ pager.pages = << <<>> >>)

IsRegularText(side) == side = Side("regular", "text/plain")

\* C9 (as claimed): a pair of identical regular text files, whatever
\* show-common is, has the per-file summary {0,0,0}, gets the same-row
\* template, and adds nothing to the global totals.
C9_IdenticalIsUnchanged ==
    (/\ Processed
     /\ IsRegularText(cur.obj1)
     /\ IsRegularText(cur.obj2)
     /\ cur.rel.bytes_equal) =>
        /\ cur.file_summary = <<ZeroSummary>>
        /\ cur.data_row = <<Row("same", cur.f, <<>>)>>
        /\ (Len(records) = 1 => summary = ZeroSummary)

(***************************************************************************)
(* Properties of cdiff_to_html.                                            *)
(***************************************************************************)
CdGroups == GroupsOf(cd_in.ops, <<>>)

\* How many lines of the old (to = FALSE) or new (to = TRUE) halves of the
\* hunks of the script begin with the marker.
HalfLines(g, to) ==
    IF to THEN NewHalf(CdGroups[g], cd_in.text) ELSE OldHalf(CdGroups[g], cd_in.text)

Marked(marker, to) ==
    Cardinality({ gk \in (1..Len(CdGroups)) \X (1..(2 * MaxOps)) :
                    /\ gk[2] <= Len(HalfLines(gk[1], to))
                    /\ SubSeq(HalfLines(gk[1], to)[gk[2]], 1, 2) = marker })

\* The script of two files that differ by one inserted line: one insert of
\* one line, among equal context.
OneInsertedLine ==
    \E k \in 1..Len(cd_in.ops) :
        /\ cd_in.ops[k].tag = "insert"
        /\ cd_in.ops[k].lb = 1
        /\ \A j \in 1..Len(cd_in.ops) : j # k => cd_in.ops[j].tag = "equal"

\* C10 (as claimed): changed is the number of '! ' lines of the new halves
\* of the hunks, deleted the number of '- ' lines, added the number of '+ '
\* lines.
C10_ChangedCountsNewHalves ==
    pc = "rendered" =>
        cd_out.summary = [changed |-> Marked(<<"!", " ">>, TRUE),
                          deleted |-> Marked(<<"-", " ">>, FALSE),
                          added |-> Marked(<<"+", " ">>, TRUE)]

\* C10 (amended): changed is the number of '! ' lines of the old halves of
\* the hunks, deleted the number of '- ' lines, added the number of '+ '
\* lines; one inserted line gives added 1, changed 0 and deleted 0.
C10_ChangedCountsOldHalves ==
    pc = "rendered" =>
        /\ cd_out.summary = [changed |-> Marked(<<"!", " ">>, FALSE),
                             deleted |-> Marked(<<"-", " ">>, FALSE),
                             added |-> Marked(<<"+", " ">>, TRUE)]
        /\ OneInsertedLine =>
              cd_out.summary = [changed |-> 0, deleted |-> 0, added |-> 1]

\* C10's case: a rendered diff of two hunks with a replace whose old and new
\* sides differ in length.
C10_Witness ==
    /\ pc = "rendered"
    /\ Len(CdGroups) = 2
    /\ Marked(<<"!", " ">>, FALSE) # Marked(<<"!", " ">>, TRUE)
    /\ cd_out.summary.changed > 0

(***************************************************************************)
(* Properties of strip_prefix.                                             *)
(***************************************************************************)
\* The positions (from 1) at which a maximal run of '/' of name ends.
RunEnds(name) ==
    { j \in 1..Len(name) :
        /\ name[j] = "/"
        /\ (j = Len(name) \/ name[j + 1] # "/") }

\* Where the m-th run of '/' of name ends.
NthRunEnd(name, m) ==
    CHOOSE j \in RunEnds(name) :
        Cardinality({ e \in RunEnds(name) : e <= j }) = m

\* name without its first min(p, k) components, k the number of its runs of '/'.
WithoutComponents(name, p) ==
    LET k == Cardinality(RunEnds(name))
        m == IF p < k THEN p ELSE k
    IN IF m = 0 THEN name
       ELSE SubSeq(name, NthRunEnd(name, m) + 1, Len(name))

AbsoluteExample == <<"/", "f", "o", "o", "/", "b", "a", "r", "/", "a", "/", "b", "/", "x", ".", "c">>
RelativeExample == <<"f", "o", "o", "/", "b", "a", "r", "/", "a", "/", "b", "/", "x", ".", "c">>
DottedExample == <<".", "/", "f", "o", "o", "/", "b", "a", "r", "/", "a", "/", "b", "/", "x", ".", "c">>

\* C11: strip_prefix(name, p) is name without its first min(p, k) components,
\* k being the number of maximal runs of '/' in name and a component ending
\* with the run of '/' that follows it; the three examples of its docstring
\* come out as written.
C11_StripRemovesComponents ==
    /\ pc = "stripped" => sp_out = WithoutComponents(sp_name, sp_p)
    /\ strip_prefix(AbsoluteExample, 2) = <<"b", "a", "r", "/", "a", "/", "b", "/", "x", ".", "c">>
    /\ strip_prefix(RelativeExample, 9) = <<"x", ".", "c">>
    /\ strip_prefix(DottedExample, 1) = <<"f", "o", "o", "/", "b", "a", "r", "/", "a", "/", "b", "/", "x", ".", "c">>

\* A name with a doubled '/' and more to strip than it has components.
C11_Witness ==
    /\ pc = "stripped"
    /\ sp_name = <<"a", "/", "/", "a">>
    /\ sp_p = 2
    /\ sp_out = <<"a">>

(***************************************************************************)
(* Properties of the walk behind the file list.                            *)
(***************************************************************************)
\* The path of a tree's file relative to the root of the tree.
RECURSIVE RelPath(_)
RelPath(p) ==
    IF Len(p) = 1 THEN p[1]
    ELSE RelPath(SubSeq(p, 1, Len(p) - 1)) \o <<"/">> \o p[Len(p)]

HasSuffix(n, suffix) ==
    /\ Len(n) >= Len(suffix)
    /\ SubSeq(n, Len(n) - Len(suffix) + 1, Len(n)) = suffix

\* The bare names the ignore patterns stand for.
IgnoredDirNames == { CVS, SCCS, SVN, REPO, GIT }

IgnoredFileName(n) ==
    \/ n = CVSIGNORE
    \/ \E suffix \in { <<".", "o">>, <<".", "s", "w", "p">>, <<".", "b", "a", "k">>,
                       <<".", "o", "l", "d">>, <<"~">> } : HasSuffix(n, suffix)

UnderIgnoredDir(p) == \E k \in 1..(Len(p) - 1) : p[k] \in IgnoredDirNames

\* The relative paths the comparison set is to hold.
ExpectedList ==
    { RelPath(p) : p \in { q \in top1.files \cup top2.files :
                             ~UnderIgnoredDir(q) /\ ~IgnoredFileName(q[Len(q)]) } }

\* C12: the walk never lists a directory that is, or lies under, a directory
\* with an ignored name, in either tree; and the file list it ends with holds
\* exactly once every file of either tree that neither lies under such a
\* directory nor has an ignored file name, and nothing else.
C12_WalkSkipsIgnored ==
    /\ \A v \in wk_visited : \A k \in 1..Len(v[2]) : v[2][k] \notin IgnoredDirNames
    /\ pc = "listed" =>
          /\ SetOf(file_list) = ExpectedList
          /\ Len(file_list) = Cardinality(ExpectedList)

\* A .git two levels down in one tree, an ignored file in the other, and a
\* file both trees hold.
C12_Witness ==
    /\ pc = "listed"
    /\ top1.files = { <<NameX>>, <<NameD, GIT, NameX>> }
    /\ top2.files = { <<NameX>>, <<NameXO>> }
    /\ <<"grab obj1", <<NameD>>>> \in wk_visited
    /\ file_list = << <<"x">> >>

(***************************************************************************)
(* Properties of the index pages.                                          *)
(***************************************************************************)
\* "index", then n in four digits with zeros in front, then ".html".
FourDigitName(n) ==
    <<"index">>
        \o [j \in 1..4 |-> DigitChar((n \div (10 ^ (4 - j))) % 10)]
        \o <<".html">>

\* C13: when the index pages were written, a Pager of one page gave the one
\* page index.html with an empty navigation widget; a Pager of k > 1 pages
\* gave, for each i below k, page i under the name index, i in four digits,
\* .html, every page with the same widget of exactly one link to each of the
\* k names; and every page carries the same summary totals, those of the run.
C13_IndexPagesNamedAndLinked ==
    (pc = "done" /\ has_diff) =>
        LET k == Len(pager.pages)
        IN /\ Cardinality(index_pages) = k
           /\ k = 1 =>
                 \A pg \in index_pages :
                     /\ pg.pagename = <<"index", ".html">>
                     /\ pg.index_div = <<>>
                     /\ pg.data_rows = pager.pages[1]
           /\ k > 1 =>
                 /\ \A n \in 0..(k - 1) :
                        \E pg \in index_pages :
                            /\ pg.pagename = FourDigitName(n)
                            /\ pg.data_rows = pager.pages[n + 1]
                 /\ \A pg \in index_pages :
                        /\ Len(pg.index_div) = k
                        /\ \A n \in 0..(k - 1) :
                               Cardinality({ j \in 1..k :
                                   pg.index_div[j] = FourDigitName(n) }) = 1
           /\ \A pg, other \in index_pages :
                 /\ pg.index_div = other.index_div
                 /\ pg.summary_info = other.summary_info
                 /\ pg.summary_info = summary

\* Three index pages were written.
C13_Witness ==
    /\ pc = "done"
    /\ has_diff
    /\ Len(pager.pages) = 3
    /\ Cardinality(index_pages) = 3

(***************************************************************************)
(* Properties of make_diff.                                                *)
(***************************************************************************)
BothRegular == top1.kind = "regular" /\ top2.kind = "regular"
BothDirs == top1.kind = "dir" /\ top2.kind = "dir"

NothingWritten ==
    /\ ~output_written
    /\ written = {}
    /\ outdirs = {}
    /\ index_pages = {}

\* C14: when the two top-level inputs are not both regular files and not
\* both directories, one that does not exist included, make_diff has ended
\* with CodeDifferError as soon as it has acted, and no output file or
\* directory has been created or written.
C14_MismatchRaisesBeforeOutput ==
    (pc # "start" /\ ~BothRegular /\ ~BothDirs) =>
        /\ pc = "error"
        /\ raised = "CodeDifferError"
        /\ NothingWritten

\* A directory against a name that does not exist.
C14_Witness ==
    /\ pc = "error"
    /\ raised = "CodeDifferError"
    /\ top1.kind = "dir"
    /\ top1.files # {}
    /\ top2.kind = "absent"

(***************************************************************************)
(* Properties of the Pager's pages and of the rows on them.                *)
(***************************************************************************)
\* C15 (as claimed): whatever was added to a Pager of maximum M, every page
\* but the last holds exactly M row fragments, and no page holds more than M.
C15_OnlyLastPageUnderFull ==
    \A p \in 1..Len(pager.pages) :
        /\ Len(pager.pages[p]) <= pager.numitem
        /\ p < Len(pager.pages) => Len(pager.pages[p]) = pager.numitem

\* C16 (as claimed): every artifact a row on a page links to was written for
\* the row's entry in this run.
C16_LinksPointToWritten ==
    \A p \in 1..Len(pager.pages) :
        \A k \in 1..Len(pager.pages[p]) :
            LinkedArtifacts(pager.pages[p][k]) \subseteq written

====
